---- MODULE Spec2Model ----
(***************************************************************************)
(* Model of sparcstools/stitch.py: generate_stitched (configuration,       *)
(* alignment, channel ordering, mosaic assembly and crop, the exporters,   *)
(* cleanup), _write_xml and prepare_stitch_slurm_job.                      *)
(*                                                                         *)
(* Pixel values are not modelled: an assembled array is its plane list,    *)
(* its plane shape and the temporary directory that backs it.  File names  *)
(* are the strings the code concatenates.  Python indices stay 0-based.    *)
(***************************************************************************)
EXTENDS Integers, Sequences, FiniteSets, TLC

VARIABLES
    pc,               \* position inside generate_stitched
    args,             \* arguments of the running generate_stitched call
    slide,            \* the FilePatternReaderRescale attributes the call sets
    aligner_ran,      \* aligner.run() was executed in this call
    _channels,        \* channel indices in assembly order (line 359-366)
    merged_array,     \* local variable merged_array
    written,          \* files this call has written below outdir
    zarr_dir,         \* <outdir>/<slidename>.ome.zarr on disk
    TEMP_DIR_NAME,    \* the module-level global
    temp_dirs,        \* temporary memory-map directories that exist
    result,           \* how the call ended
    retval,           \* what the call returned to its caller
    printed,          \* "Outfile already existed, deleted." was printed
    xml_in, xml_file, \* _write_xml: its arguments, the document written
    mosaic_in, cropped_out,   \* _assemble_mosaic alone: input, output
    slurm,            \* prepare_stitch_slurm_job: inputs and generated files
    driver            \* the array tasks of run.sh that ran, what they invoked

stitch_vars == <<pc, args, slide, aligner_ran, _channels, merged_array,
                 written, zarr_dir, TEMP_DIR_NAME, temp_dirs, result, retval,
                 printed>>
xml_vars    == <<xml_in, xml_file>>
crop_vars   == <<mosaic_in, cropped_out>>
slurm_vars  == <<slurm, driver>>
vars == <<stitch_vars, xml_vars, crop_vars, slurm_vars>>

(***************************************************************************)
(* Bounds                                                                  *)
(***************************************************************************)
MaxFiletypes == 2      \* longest filetype list drawn
MaxMargin    == 3      \* largest crop margin drawn for _assemble_mosaic alone
MaxPlane     == 3      \* plane height/width drawn, in units of 20 pixels
MaxXmlChannels == 3    \* longest channel list handed to _write_xml
MaxWells     == 3      \* wells found below well_sorted
MaxTimepoints == 2     \* timepoints found in the first well
MaxJobsPerFile == 4    \* largest jobs_per_file drawn

(***************************************************************************)
(* Python helpers                                                          *)
(***************************************************************************)
Min(a, b) == IF a < b THEN a ELSE b
Max(a, b) == IF a > b THEN a ELSE b

\* list.index(x): 0-based position of the first x, ValueError when absent
ValueError == -1
ListIndex(list, x) ==
    IF \E i \in 1..Len(list) : list[i] = x
    THEN (CHOOSE i \in 1..Len(list) :
             list[i] = x /\ \A j \in 1..(i - 1) : list[j] # x) - 1
    ELSE ValueError

\* x in s for a str s: substring test
Contains(s, sub) ==
    \E i \in 1..(Len(s) - Len(sub) + 1) : SubSeq(s, i, i + Len(sub) - 1) = sub

\* a[start:stop] on an axis of length n: the index range Python selects
SliceBound(i, n) == IF i < 0 THEN Max(i + n, 0) ELSE Min(i, n)
SliceLen(start, stop, n) == Max(SliceBound(stop, n) - SliceBound(start, n), 0)

(***************************************************************************)
(* The slide: slide.metadata.channel_map is a dict index -> channel name   *)
(***************************************************************************)
channel_map == [i \in 0..1 |-> IF i = 0 THEN "Alexa488" ELSE "DAPI"]

\* list(channel_map.keys()), list(channel_map.values()): insertion order
ChannelMapKeys   == [i \in 1..Cardinality(DOMAIN channel_map) |-> i - 1]
ChannelMapValues == [i \in 1..Cardinality(DOMAIN channel_map) |-> channel_map[i - 1]]

\* aligner.mosaic_shape, the plane shape the external aligner reports
mosaic_shape == <<2048, 2048>>

slidename == "S1"

(***************************************************************************)
(* Arguments drawn for a generate_stitched call                            *)
(***************************************************************************)
\* a list argument that is None
NoList == <<"None">>

\* filetype is a list that is only tested with "in": the set of its elements
FiletypeValues == {".tif", ".ome.zarr", ".ome.tif", "ome.zarr", "ome.tif",
                   "return_array"}
Filetypes == {f \in SUBSET FiletypeValues : Cardinality(f) <= MaxFiletypes}

\* <<do_intensity_rescale, no_rescale_channel>>
RescaleArgs == {<<"True", NoList>>, <<"full_image", NoList>>,
                <<"partial", NoList>>, <<"partial", <<>>>>,
                <<"partial", <<"DAPI">>>>,
                <<"partial", <<"DAPI", "Alexa488">>>>}

NoCrop == [top |-> 0, bottom |-> 0, left |-> 0, right |-> 0]
Crops == {NoCrop,
          [top |-> 60, bottom |-> 0, left |-> 0, right |-> 0],
          [top |-> 0, bottom |-> 0, left |-> 30, right |-> 30]}

ChannelOrders == {NoList, <<"Alexa488", "DAPI">>, <<"DAPI", "Alexa488">>,
                  <<"DAPI", "GFP">>}

NoArgs == [filetype |-> {}, do_intensity_rescale |-> "True",
           no_rescale_channel |-> NoList, crop |-> NoCrop,
           channel_order |-> NoList]

(***************************************************************************)
(* Files and arrays                                                        *)
(***************************************************************************)
NoDoc == [channels |-> <<>>, images |-> <<>>]

\* a file below outdir: name, what it is, the channel whose tiles an image
\* plane holds (-1: not a single plane), the XML document (NoDoc: not XML)
File(name, kind, plane, doc) ==
    [name |-> name, kind |-> kind, plane |-> plane, doc |-> doc]

NoArray == [bound |-> FALSE, planes |-> <<>>, shape |-> <<0, 0>>, dir |-> "-"]

NoZarr == [exists |-> FALSE, meta |-> "none", chunks |-> {}]

NoRetval == [array |-> NoArray, channels |-> <<>>]

cropping_factor == 20
ChunkSize == 1024

CropSum(crop) == crop.top + crop.bottom + crop.left + crop.right

\* str(n) for n >= 0
Digit(d) == SubSeq("0123456789", d + 1, d + 1)
RECURSIVE Str(_)
Str(n) == IF n < 10 THEN Digit(n) ELSE Str(n \div 10) \o Digit(n % 10)

(***************************************************************************)
(* _write_xml (lines 44-92): the file <path>/<slidename>.XML               *)
(***************************************************************************)
image_paths(channels, name, cropped) ==
    [i \in 1..Len(channels) |->
        IF cropped THEN name \o "_" \o channels[i] \o "_cropped.tif"
                   ELSE name \o "_" \o channels[i] \o ".tif"]

\* variant: ids are the 0-based positions
_write_xml_ZeroBased(channels, name, cropped) ==
    File(name \o ".XML", "xml", -1,
         [channels |-> [i \in 1..Len(channels) |->
                           [id |-> Str(i - 1), name |-> channels[i]]],
          images   |-> [i \in 1..Len(channels) |->
                           [url |-> image_paths(channels, name, cropped)[i],
                            channel |-> Str(i - 1)]]])

\* enumerate() counts from 0: element i (1-based here) gets str(i - 1 + 1)
_write_xml(channels, name, cropped) ==
    File(name \o ".XML", "xml", -1,
         [channels |-> [i \in 1..Len(channels) |->
                           [id |-> Str((i - 1) + 1), name |-> channels[i]]],
          images   |-> [i \in 1..Len(channels) |->
                           [url |-> image_paths(channels, name, cropped)[i],
                            channel |-> Str((i - 1) + 1)]]])

(***************************************************************************)
(* _assemble_mosaic (lines 255-299).  mosaic = [channels, shape]; chans is *)
(* the enclosing _channels; the array is backed by the directory dir.      *)
(* The channel lists drawn are never longer than mosaic.channels.          *)
(***************************************************************************)
\* variant: the row margins are applied to the columns and the other way round
_assemble_mosaic_SwappedAxes(mosaic, chans, crop, dir) ==
    LET n_channels == Len(mosaic.channels)
        x == mosaic.shape[1]
        y == mosaic.shape[2]
        planes == [i \in 1..n_channels |->
                      IF i <= Len(chans) THEN chans[i] ELSE -1]
        top    == crop.top * cropping_factor
        bottom == crop.bottom * cropping_factor
        left   == crop.left * cropping_factor
        right  == crop.right * cropping_factor
    IN  IF CropSum(crop) > 0
        THEN [bound |-> TRUE, planes |-> planes,
              shape |-> <<SliceLen(left, x - right, x),
                          SliceLen(top, y - bottom, y)>>,
              dir |-> dir]
        ELSE [bound |-> TRUE, planes |-> planes, shape |-> <<x, y>>,
              dir |-> dir]

_assemble_mosaic(mosaic, chans, crop, dir) ==
    LET n_channels == Len(mosaic.channels)
        x == mosaic.shape[1]
        y == mosaic.shape[2]
        \* mosaics[i, :, :] = mosaic.assemble_channel(channel = chans[i])
        planes == [i \in 1..n_channels |->
                      IF i <= Len(chans) THEN chans[i] ELSE -1]
        top    == crop.top * cropping_factor
        bottom == crop.bottom * cropping_factor
        left   == crop.left * cropping_factor
        right  == crop.right * cropping_factor
    IN  IF CropSum(crop) > 0
        THEN [bound |-> TRUE, planes |-> planes,
              shape |-> <<SliceLen(top, x - bottom, x),
                          SliceLen(left, y - right, y)>>,
              dir |-> dir]
        ELSE [bound |-> TRUE, planes |-> planes, shape |-> <<x, y>>,
              dir |-> dir]

\* reg.Mosaic(aligner, aligner.mosaic_shape, channels = channel_map.keys())
Mosaic == [channels |-> ChannelMapKeys, shape |-> mosaic_shape]

\* tempmmap.redefine_temp_location(outdir) makes a new directory "own"; the
\* directory the global named before is no longer named by it
NewTempDirs(dirs) ==
    {IF d = "named" THEN "other" ELSE d : d \in dirs} \cup {"own"}

\* write_image(array, chunks = (1, 1024, 1024)): one chunk file per block
CeilDiv(a, b) == (a + b - 1) \div b
ZarrChunks(array) ==
    {[c |-> c, i |-> i, j |-> j] :
        c \in 0..(Len(array.planes) - 1),
        i \in 0..(CeilDiv(array.shape[1], ChunkSize) - 1),
        j \in 0..(CeilDiv(array.shape[2], ChunkSize) - 1)} \X {"new"}

(***************************************************************************)
(* generate_stitched, lines 301-327: reader set-up and the "partial" block *)
(***************************************************************************)
\* slide.metadata.channel_map.values().index(x) (line 324): values() is a
\* dict view, which has no attribute index
DictValuesIndex(x) == "AttributeError"

\* variant: "partial" without a list falls through instead of exiting
PartialBlock_NoExit(do_intensity_rescale, no_rescale_channel) ==
    IF do_intensity_rescale = "partial" /\ no_rescale_channel # NoList
                                        /\ Len(no_rescale_channel) > 0
    THEN [err |-> DictValuesIndex(no_rescale_channel[1]),
          assigned |-> FALSE, ids |-> <<>>]
    ELSE [err |-> "none",
          assigned |-> do_intensity_rescale = "partial"
                       /\ no_rescale_channel # NoList,
          ids |-> <<>>]

\* lines 320-327: how the block ends and the ids it collected
PartialBlock(do_intensity_rescale, no_rescale_channel) ==
    IF do_intensity_rescale = "partial"
    THEN IF no_rescale_channel # NoList
         THEN IF Len(no_rescale_channel) > 0
              THEN [err |-> DictValuesIndex(no_rescale_channel[1]),
                    assigned |-> FALSE, ids |-> <<>>]
              ELSE [err |-> "none", assigned |-> TRUE, ids |-> <<>>]
         ELSE [err |-> "SystemExit", assigned |-> FALSE, ids |-> <<>>]
    ELSE [err |-> "none", assigned |-> FALSE, ids |-> <<>>]

NoSlide == [do_rescale |-> "True", no_rescale_channel_set |-> FALSE,
            no_rescale_channel |-> <<>>]

\* files of an earlier call are old to the call that starts
Aged(z) == [z EXCEPT !.meta = IF @ = "new" THEN "old" ELSE @,
                     !.chunks = {<<e[1], "old">> : e \in @}]

Configure ==
    /\ pc = "idle"
    /\ \E ft \in Filetypes, ra \in RescaleArgs, cr \in Crops,
          co \in ChannelOrders :
          LET pb == PartialBlock(ra[1], ra[2]) IN
          /\ args' = [filetype |-> ft, do_intensity_rescale |-> ra[1],
                      no_rescale_channel |-> ra[2], crop |-> cr,
                      channel_order |-> co]
          /\ slide' = [do_rescale |-> ra[1],
                       no_rescale_channel_set |-> pb.assigned,
                       no_rescale_channel |-> pb.ids]
          /\ IF pb.err = "none"
             THEN pc' = "align" /\ result' = "running"
             ELSE pc' = "returned" /\ result' = pb.err
    /\ aligner_ran' = FALSE
    /\ _channels' = <<>>
    /\ merged_array' = NoArray
    /\ written' = {}
    /\ retval' = NoRetval
    /\ zarr_dir' = Aged(zarr_dir)
    /\ TEMP_DIR_NAME' = IF TEMP_DIR_NAME = "own" THEN "named" ELSE TEMP_DIR_NAME
    /\ temp_dirs' = {IF d = "own" THEN "named" ELSE d : d \in temp_dirs}
    /\ printed' = FALSE
    /\ UNCHANGED <<xml_vars, crop_vars, slurm_vars>>

(***************************************************************************)
(* lines 329-345: axis flip, aligner, QC plots                             *)
(***************************************************************************)
\* written by plot_edge_scatter and plot_edge_quality
QCPlots == {File("edge_scatter", "qc", -1, NoDoc),
            File("edge_quality", "qc", -1, NoDoc)}

Align ==
    /\ pc = "align"
    /\ aligner_ran' = TRUE
    /\ \E plot_QC \in BOOLEAN :
          written' = written \cup (IF plot_QC THEN QCPlots ELSE {})
    /\ pc' = "order"
    /\ UNCHANGED <<args, slide, _channels, merged_array, zarr_dir,
                   TEMP_DIR_NAME, temp_dirs, result, retval>>
    /\ UNCHANGED <<printed, xml_vars, crop_vars, slurm_vars>>

(***************************************************************************)
(* lines 347-368: the mosaic and the channel order                         *)
(***************************************************************************)
\* variant: the positions are counted from 1
ChannelOrderIds_OneBased(channel_order) ==
    [i \in 1..Len(channel_order) |->
        ListIndex(ChannelMapValues, channel_order[i]) + 1]

ChannelOrderIds(channel_order) ==
    [i \in 1..Len(channel_order) |->
        ListIndex(ChannelMapValues, channel_order[i])]

Order ==
    /\ pc = "order"
    /\ IF args.channel_order = NoList
       THEN /\ _channels' = Mosaic.channels
            /\ pc' = "positions"
            /\ UNCHANGED result
       ELSE LET ids == ChannelOrderIds(args.channel_order) IN
            IF \E i \in 1..Len(ids) : ids[i] = ValueError
            THEN /\ pc' = "returned"
                 /\ result' = "ValueError"
                 /\ UNCHANGED _channels
            ELSE /\ _channels' = ids
                 /\ pc' = "positions"
                 /\ UNCHANGED result
    /\ UNCHANGED <<args, slide, aligner_ran, merged_array, written, zarr_dir,
                   TEMP_DIR_NAME, temp_dirs, retval>>
    /\ UNCHANGED <<printed, xml_vars, crop_vars, slurm_vars>>

(***************************************************************************)
(* lines 370-380: tile positions                                           *)
(***************************************************************************)
Positions ==
    /\ pc = "positions"
    /\ \E return_tile_positions \in BOOLEAN :
          written' =
             IF "return_array" \in args.filetype THEN written
             ELSE IF return_tile_positions
                  THEN written \cup
                       {File(slidename \o "_tile_positions.tsv", "positions",
                             -1, NoDoc)}
                  ELSE written
    /\ pc' = "export"
    /\ UNCHANGED <<args, slide, aligner_ran, _channels, merged_array, zarr_dir,
                   TEMP_DIR_NAME, temp_dirs, result, retval>>
    /\ UNCHANGED <<printed, xml_vars, crop_vars, slurm_vars>>

(***************************************************************************)
(* lines 382-462: the export chain, one branch of if / elif per call       *)
(***************************************************************************)
\* the call of _assemble_mosaic guarded by 'merged_array' not in locals()
Assembled ==
    IF ~merged_array.bound
    THEN _assemble_mosaic(Mosaic, _channels, args.crop, "own")
    ELSE merged_array

AssembleEffects ==
    /\ merged_array' = Assembled
    /\ IF ~merged_array.bound
       THEN TEMP_DIR_NAME' = "own" /\ temp_dirs' = NewTempDirs(temp_dirs)
       ELSE UNCHANGED <<TEMP_DIR_NAME, temp_dirs>>

\* lines 382-397
ExportReturnArray ==
    /\ pc = "export"
    /\ "return_array" \in args.filetype
    /\ AssembleEffects
    /\ retval' = [array |-> Assembled, channels |-> ChannelMapValues]
    /\ pc' = "returned"
    /\ result' = "array"
    /\ UNCHANGED <<args, slide, aligner_ran, _channels, written, zarr_dir>>
    /\ UNCHANGED <<printed, xml_vars, crop_vars, slurm_vars>>

\* variant: the name never carries the crop marker
TifName_NoMarker(channel, crop) == slidename \o "_" \o channel \o ".tif"

\* lines 406-423: one image per channel of the map, plane i under name i
TifName(channel, crop) ==
    IF CropSum(crop) > 0
    THEN slidename \o "_" \o channel \o "_cropped.tif"
    ELSE slidename \o "_" \o channel \o ".tif"

TifFiles(array, crop) ==
    {File(TifName(ChannelMapValues[i], crop), "tif", array.planes[i], NoDoc) :
        i \in 1..Len(ChannelMapValues)}

\* lines 399-426
ExportTif ==
    /\ pc = "export"
    /\ "return_array" \notin args.filetype
    /\ ".tif" \in args.filetype
    /\ AssembleEffects
    /\ \E export_XML \in BOOLEAN :
          written' = written \cup TifFiles(Assembled, args.crop) \cup
             (IF export_XML
              THEN {_write_xml(ChannelMapValues, slidename,
                               CropSum(args.crop) > 0)}
              ELSE {})
    /\ pc' = "cleanup"
    /\ UNCHANGED <<args, slide, aligner_ran, _channels, zarr_dir, result,
                   retval>>
    /\ UNCHANGED <<printed, xml_vars, crop_vars, slurm_vars>>

\* lines 428-432: PyramidWriter on the mosaic object
ExportOmeTif ==
    /\ pc = "export"
    /\ "return_array" \notin args.filetype
    /\ ".tif" \notin args.filetype
    /\ "ome.tif" \in args.filetype
    /\ written' = written \cup
                  {File(slidename \o ".ome.tiff", "ome.tiff", -1, NoDoc)}
    /\ pc' = "cleanup"
    /\ UNCHANGED <<args, slide, aligner_ran, _channels, merged_array, zarr_dir,
                   TEMP_DIR_NAME, temp_dirs, result, retval>>
    /\ UNCHANGED <<printed, xml_vars, crop_vars, slurm_vars>>

\* variant: an existing target is left in place
RmtreeIfIsdir_Keep(z) == z

\* lines 442-445: delete the target if it already exists
RmtreeIfIsdir(z) == IF z.exists THEN NoZarr ELSE z

\* lines 434-445
ExportZarrDelete ==
    /\ pc = "export"
    /\ "return_array" \notin args.filetype
    /\ ".tif" \notin args.filetype
    /\ "ome.tif" \notin args.filetype
    /\ "ome.zarr" \in args.filetype
    /\ AssembleEffects
    /\ zarr_dir' = RmtreeIfIsdir(zarr_dir)
    /\ printed' = zarr_dir.exists
    /\ pc' = "zarr_write"
    /\ UNCHANGED <<args, slide, aligner_ran, _channels, written, result,
                   retval>>
    /\ UNCHANGED <<xml_vars, crop_vars, slurm_vars>>

\* a directory store keeps the entries under keys that are not written again
ZarrWriteInto(z, array) ==
    [exists |-> TRUE, meta |-> "new",
     chunks |-> {e \in z.chunks : <<e[1], "new">> \notin ZarrChunks(array)}
                \cup ZarrChunks(array)]

\* lines 447-462
ExportZarrWrite ==
    /\ pc = "zarr_write"
    /\ zarr_dir' = ZarrWriteInto(zarr_dir, merged_array)
    /\ written' = written \cup
                  {File(slidename \o ".ome.zarr", "zarr", -1, NoDoc)}
    /\ pc' = "cleanup"
    /\ UNCHANGED <<args, slide, aligner_ran, _channels, merged_array,
                   TEMP_DIR_NAME, temp_dirs, result, retval>>
    /\ UNCHANGED <<printed, xml_vars, crop_vars, slurm_vars>>

\* no branch of the chain matches
ExportNothing ==
    /\ pc = "export"
    /\ "return_array" \notin args.filetype
    /\ ".tif" \notin args.filetype
    /\ "ome.tif" \notin args.filetype
    /\ "ome.zarr" \notin args.filetype
    /\ pc' = "cleanup"
    /\ UNCHANGED <<args, slide, aligner_ran, _channels, merged_array, written,
                   zarr_dir, TEMP_DIR_NAME, temp_dirs, result, retval>>
    /\ UNCHANGED <<printed, xml_vars, crop_vars, slurm_vars>>

(***************************************************************************)
(* lines 464-479: free the array, remove the temporary directory           *)
(***************************************************************************)
Cleanup ==
    /\ pc = "cleanup"
    /\ merged_array' = NoArray
    /\ IF TEMP_DIR_NAME # "unset"
       THEN /\ temp_dirs' = temp_dirs \ {TEMP_DIR_NAME}
            /\ TEMP_DIR_NAME' = "unset"
       ELSE UNCHANGED <<TEMP_DIR_NAME, temp_dirs>>
    /\ pc' = "returned"
    /\ result' = "ok"
    /\ UNCHANGED <<args, slide, aligner_ran, _channels, written, zarr_dir,
                   retval>>
    /\ UNCHANGED <<printed, xml_vars, crop_vars, slurm_vars>>

\* the call is over (return at line 397 or 479, or the exception leaves the
\* function): its locals and the reader are gone, the disk and the global stay
Return ==
    /\ pc = "returned"
    /\ pc' = "idle"
    /\ args' = NoArgs
    /\ slide' = NoSlide
    /\ aligner_ran' = FALSE
    /\ _channels' = <<>>
    /\ merged_array' = NoArray
    /\ written' = {}
    /\ result' = "none"
    /\ retval' = NoRetval
    /\ printed' = FALSE
    /\ UNCHANGED <<zarr_dir, TEMP_DIR_NAME, temp_dirs>>
    /\ UNCHANGED <<xml_vars, crop_vars, slurm_vars>>

(***************************************************************************)
(* Specification of generate_stitched calls made one after another         *)
(***************************************************************************)
NoXmlIn == [channels |-> <<>>, slidename |-> "", cropped |-> FALSE]
NoMosaicIn == [shape |-> <<0, 0>>, crop |-> NoCrop]
NoDirective == [first |-> 0, last |-> 0, running |-> 0]
NoDriver == [done |-> {}, invoked |-> {}]
NoSlurm == [state |-> "none", wells |-> <<>>, timepoints |-> <<>>,
            jobs_per_file |-> 1, array_inputs |-> <<>>, array |-> NoDirective,
            PER_TASK |-> 0]

InitStitch ==
    /\ pc = "idle"
    /\ args = NoArgs
    /\ slide = NoSlide
    /\ aligner_ran = FALSE
    /\ _channels = <<>>
    /\ merged_array = NoArray
    /\ written = {}
    /\ zarr_dir = NoZarr
    /\ TEMP_DIR_NAME = "unset"
    /\ temp_dirs = {}
    /\ result = "none"
    /\ retval = NoRetval
    /\ printed = FALSE

Init ==
    /\ InitStitch
    /\ xml_in = NoXmlIn
    /\ xml_file = File("", "none", -1, NoDoc)
    /\ mosaic_in = NoMosaicIn
    /\ cropped_out = NoArray
    /\ slurm = NoSlurm
    /\ driver = NoDriver

Next ==
    \/ Configure
    \/ Align
    \/ Order
    \/ Positions
    \/ ExportReturnArray
    \/ ExportTif
    \/ ExportOmeTif
    \/ ExportZarrDelete
    \/ ExportZarrWrite
    \/ ExportNothing
    \/ Cleanup
    \/ Return

Spec == Init /\ [][Next]_vars

(***************************************************************************)
(* Properties of generate_stitched                                         *)
(***************************************************************************)
Finished == pc = "returned" /\ result = "ok"

WrittenKinds == {f.kind : f \in written}

\* the export types a filetype list names, by the documented value or by the
\* string the export chain tests for
NamedKinds(filetype) ==
    (IF ".tif" \in filetype THEN {"tif"} ELSE {}) \cup
    (IF ".ome.tif" \in filetype \/ "ome.tif" \in filetype
     THEN {"ome.tiff"} ELSE {}) \cup
    (IF ".ome.zarr" \in filetype \/ "ome.zarr" \in filetype
     THEN {"zarr"} ELSE {})

\* C1: a call whose filetype list names more than one export type writes
\* every export type the list names
C1_AllListedTypesWritten ==
    (Finished /\ "return_array" \notin args.filetype
              /\ Cardinality(NamedKinds(args.filetype)) > 1)
    => NamedKinds(args.filetype) \subseteq WrittenKinds

\* the output the docstring promises for a documented filetype value
DocumentedKind(v) ==
    CASE v = ".tif" -> "tif" [] v = ".ome.zarr" -> "zarr"
      [] v = ".ome.tif" -> "ome.tiff"

\* C2: a call whose filetype is the one-element list of a documented value
\* ('.tif', '.ome.zarr', '.ome.tif') writes the corresponding output
C2_DocumentedValueWritesOutput ==
    \A v \in {".tif", ".ome.zarr", ".ome.tif"} :
        (Finished /\ args.filetype = {v}) => DocumentedKind(v) \in WrittenKinds

\* C3: "partial" with no_rescale_channel None ends in an error exit before the
\* aligner has run, before a mosaic is assembled, before anything is written
C3_PartialWithoutListExits ==
    (pc # "idle" /\ args.do_intensity_rescale = "partial"
                 /\ args.no_rescale_channel = NoList)
    => /\ pc = "returned"
       /\ result = "SystemExit"
       /\ ~aligner_ran
       /\ ~merged_array.bound
       /\ written = {}

C3_Witness ==
    /\ pc = "returned"
    /\ result = "SystemExit"
    /\ args.do_intensity_rescale = "partial"
    /\ args.no_rescale_channel = NoList

\* C4: "partial" with a non-empty list of channel-map names does not fail at
\* configuration; the reader's no-rescale list is the indices of the names in
\* list order and the call goes on to alignment
C4_PartialWithListConfigures ==
    (pc # "idle" /\ args.do_intensity_rescale = "partial"
       /\ args.no_rescale_channel # NoList
       /\ Len(args.no_rescale_channel) > 0
       /\ \A i \in 1..Len(args.no_rescale_channel) :
             ListIndex(ChannelMapValues, args.no_rescale_channel[i]) # ValueError)
    => /\ result \notin {"AttributeError", "SystemExit"}
       /\ slide.no_rescale_channel_set
       /\ slide.no_rescale_channel =
             [i \in 1..Len(args.no_rescale_channel) |->
                 ListIndex(ChannelMapValues, args.no_rescale_channel[i])]

\* the crop step ran on the mosaic of this call
CropRan == CropSum(args.crop) > 0

\* C7 as stated: in a call that wrote the assembled mosaic (flat TIFF or
\* OME-Zarr), every written output name carries "_cropped" if the crop step
\* ran and none does if it did not
C7_MarkerOnEveryOutput ==
    (Finished /\ WrittenKinds \cap {"tif", "zarr"} # {})
    => \A f \in written :
          f.kind \in {"tif", "zarr"} => (Contains(f.name, "_cropped") <=> CropRan)

\* C7 amended: the per-channel flat TIFF names carry "_cropped" exactly when
\* the crop step ran; the OME-Zarr container, the XML sidecar, the OME-TIFF
\* and the tile position file never carry it
C7_MarkerOnFlatTifOnly ==
    Finished
    => \A f \in written :
          /\ f.kind = "tif" => (Contains(f.name, "_cropped") <=> CropRan)
          /\ f.kind \in {"zarr", "xml", "ome.tiff", "positions"}
                => ~Contains(f.name, "_cropped")

C7_Witness ==
    /\ Finished
    /\ CropRan
    /\ \E f \in written : f.kind = "tif" /\ Contains(f.name, "_cropped")

\* C10: a second OME-Zarr export to the same target finds the target deleted
\* before its write begins, and after it the target holds only what the second
\* export wrote
C10_ZarrOverwrite ==
    /\ pc = "zarr_write" => ~zarr_dir.exists
    /\ (pc \in {"cleanup", "returned"} /\ "zarr" \in WrittenKinds)
       => /\ zarr_dir.exists
          /\ zarr_dir.meta = "new"
          /\ \A e \in zarr_dir.chunks : e[2] = "new"
          /\ {e[1] : e \in zarr_dir.chunks}
                = {e[1] : e \in ZarrChunks(
                      _assemble_mosaic(Mosaic, _channels, args.crop, "own"))}

C10_Witness ==
    /\ Finished
    /\ printed
    /\ "zarr" \in WrittenKinds
    /\ args.crop # NoCrop

(***************************************************************************)
(* _assemble_mosaic on its own: every plane shape and crop spec drawn      *)
(***************************************************************************)
PlaneSizes == {15 * k : k \in 1..MaxPlane}
Margins == 0..MaxMargin

InitCrop ==
    /\ InitStitch
    /\ xml_in = NoXmlIn
    /\ xml_file = File("", "none", -1, NoDoc)
    /\ slurm = NoSlurm
    /\ driver = NoDriver
    /\ mosaic_in \in [shape : PlaneSizes \X PlaneSizes,
                      crop : [top : Margins, bottom : Margins,
                              left : Margins, right : Margins]]
    /\ cropped_out = NoArray

AssembleMosaic ==
    /\ ~cropped_out.bound
    /\ cropped_out' =
          _assemble_mosaic([channels |-> ChannelMapKeys,
                            shape |-> mosaic_in.shape],
                           ChannelMapKeys, mosaic_in.crop, "own")
    /\ UNCHANGED <<mosaic_in, stitch_vars, xml_vars, slurm_vars>>

NextCrop == AssembleMosaic

SpecCrop == InitCrop /\ [][NextCrop]_vars

\* the scaled margins fit inside the plane
MarginsFit(m) ==
    /\ 20 * m.crop.top + 20 * m.crop.bottom < m.shape[1]
    /\ 20 * m.crop.left + 20 * m.crop.right < m.shape[2]

\* C5: with at least one positive margin and scaled margins that fit, the
\* returned array has one plane shape for all channels, which is
\* (height - 20*top - 20*bottom, width - 20*left - 20*right)
C5_CropShape ==
    (cropped_out.bound /\ CropSum(mosaic_in.crop) > 0 /\ MarginsFit(mosaic_in))
    => /\ Len(cropped_out.planes) = Len(ChannelMapKeys)
       /\ cropped_out.shape =
             <<mosaic_in.shape[1] - 20 * mosaic_in.crop.top
                                  - 20 * mosaic_in.crop.bottom,
               mosaic_in.shape[2] - 20 * mosaic_in.crop.left
                                  - 20 * mosaic_in.crop.right>>

C5_Witness ==
    /\ cropped_out.bound
    /\ MarginsFit(mosaic_in)
    /\ mosaic_in.crop.top > 0 /\ mosaic_in.crop.bottom > 0
    /\ mosaic_in.crop.left > 0 /\ mosaic_in.crop.right > 0
    /\ cropped_out.shape[1] < mosaic_in.shape[1]

\* C6: the array _assemble_mosaic returns has at least one row and one column
\* in every plane, whatever the crop spec
C6_CropWindowNonEmpty ==
    cropped_out.bound
    => cropped_out.shape[1] >= 1 /\ cropped_out.shape[2] >= 1

(***************************************************************************)
(* _write_xml on its own: channel lists, slide names, both cropped values  *)
(***************************************************************************)
XmlChannelNames == {"DAPI", "Alexa488", "mCherry"}
XmlSlideNames == {"S1", "S2"}

RECURSIVE SeqsUpTo(_, _)
SeqsUpTo(S, n) ==
    IF n = 0 THEN {<<>>}
    ELSE SeqsUpTo(S, n - 1) \cup
         {Append(q, e) : q \in {r \in SeqsUpTo(S, n - 1) : Len(r) = n - 1},
                         e \in S}

InitXml ==
    /\ InitStitch
    /\ mosaic_in = NoMosaicIn
    /\ cropped_out = NoArray
    /\ slurm = NoSlurm
    /\ driver = NoDriver
    /\ xml_in \in [channels : SeqsUpTo(XmlChannelNames, MaxXmlChannels),
                   slidename : XmlSlideNames, cropped : BOOLEAN]
    /\ xml_file = File("", "none", -1, NoDoc)

WriteXml ==
    /\ xml_file.kind = "none"
    /\ xml_file' = _write_xml(xml_in.channels, xml_in.slidename, xml_in.cropped)
    /\ UNCHANGED <<xml_in, stitch_vars, crop_vars, slurm_vars>>

NextXml == WriteXml

SpecXml == InitXml /\ [][NextXml]_vars

\* the number a decimal id string denotes
DigitValue(c) ==
    CASE c = "0" -> 0 [] c = "1" -> 1 [] c = "2" -> 2 [] c = "3" -> 3
      [] c = "4" -> 4 [] c = "5" -> 5 [] c = "6" -> 6 [] c = "7" -> 7
      [] c = "8" -> 8 [] c = "9" -> 9
RECURSIVE DecimalValue(_)
DecimalValue(str) ==
    IF Len(str) = 1 THEN DigitValue(str)
    ELSE 10 * DecimalValue(SubSeq(str, 1, Len(str) - 1))
         + DigitValue(SubSeq(str, Len(str), Len(str)))

\* C8: for channels c_1..c_n and slide S the file S.XML has n channel elements
\* with ids 1..n in list order, the i-th named c_i, and n image elements in
\* the same order, the i-th with url S_c_i.tif (S_c_i_cropped.tif when
\* cropped) and channel id i; ["DAPI","Alexa488"], "S1" gives ids 1, 2 and
\* urls S1_DAPI.tif, S1_Alexa488.tif
C8_XmlSidecar ==
    xml_file.kind = "xml"
    => LET c == xml_in.channels
           S == xml_in.slidename
           doc == xml_file.doc
       IN /\ xml_file.name = S \o ".XML"
          /\ Len(doc.channels) = Len(c)
          /\ Len(doc.images) = Len(c)
          /\ \A i \in 1..Len(c) :
                /\ DecimalValue(doc.channels[i].id) = i
                /\ doc.channels[i].name = c[i]
                /\ DecimalValue(doc.images[i].channel) = i
                /\ doc.images[i].url =
                      (IF xml_in.cropped THEN S \o "_" \o c[i] \o "_cropped.tif"
                                         ELSE S \o "_" \o c[i] \o ".tif")
          /\ (c = <<"DAPI", "Alexa488">> /\ S = "S1" /\ ~xml_in.cropped)
             => /\ doc.channels = <<[id |-> "1", name |-> "DAPI"],
                                    [id |-> "2", name |-> "Alexa488"]>>
                /\ doc.images = <<[url |-> "S1_DAPI.tif", channel |-> "1"],
                                  [url |-> "S1_Alexa488.tif", channel |-> "2"]>>

C8_Witness ==
    /\ xml_file.kind = "xml"
    /\ xml_in.channels = <<"DAPI", "Alexa488">>
    /\ xml_in.slidename = "S1"
    /\ ~xml_in.cropped
    /\ Len(xml_file.doc.images) = 2

(***************************************************************************)
(* prepare_stitch_slurm_job (lines 505-639)                                *)
(***************************************************************************)
\* the names the regular expressions of lines 576 and 579 extract, sorted
WellName(w) == "Row01_Well0" \o Str(w)
TimepointName(t) == "Timepoint00" \o Str(t)

zstack_value == 1

\* str(n).zfill(3)
Zfill3(n) ==
    IF Len(Str(n)) >= 3 THEN Str(n)
    ELSE IF Len(Str(n)) = 2 THEN "0" \o Str(n) ELSE "00" \o Str(n)

\* lines 584-588: the tuple appended for one timepoint and one well
JobTuple(timepoint, well) ==
    [pattern |-> timepoint \o "_" \o well \o "_" \o "{channel}_" \o "zstack"
                 \o Zfill3(zstack_value) \o "_r{row:03}_c{col:03}.tif",
     slidename |-> timepoint \o "_" \o well,
     path |-> "well_sorted/" \o well]

\* lines 583-588: the inner loop over the wells
RECURSIVE WellLoop(_, _, _)
WellLoop(to_process, timepoint, wells) ==
    IF wells = <<>> THEN to_process
    ELSE WellLoop(Append(to_process, JobTuple(timepoint, Head(wells))),
                  timepoint, Tail(wells))

\* lines 581-588: the outer loop over the timepoints
RECURSIVE TimepointLoop(_, _, _)
TimepointLoop(to_process, timepoints, wells) ==
    IF timepoints = <<>> THEN to_process
    ELSE TimepointLoop(WellLoop(to_process, Head(timepoints), wells),
                       Tail(timepoints), wells)

\* lines 590-593: the table with the default 0-based index as ArrayTaskID
ArrayInputs(to_process) ==
    [i \in 1..Len(to_process) |->
        [ArrayTaskID |-> i - 1, pattern |-> to_process[i].pattern,
         slidename |-> to_process[i].slidename, path |-> to_process[i].path]]

\* line 611: the %20 of the array directive
MaxRunningTasks == 20

\* variant: the quotient is truncated
n_jobs_Truncated(rows, jobs_per_file) == rows \div jobs_per_file

\* line 597: int(np.ceil(rows / jobs_per_file))
n_jobs(rows, jobs_per_file) ==
    IF rows % jobs_per_file = 0 THEN rows \div jobs_per_file
    ELSE rows \div jobs_per_file + 1

InitSlurm ==
    /\ InitStitch
    /\ xml_in = NoXmlIn
    /\ xml_file = File("", "none", -1, NoDoc)
    /\ mosaic_in = NoMosaicIn
    /\ cropped_out = NoArray
    /\ driver = NoDriver
    /\ \E N \in 1..MaxWells, M \in 0..MaxTimepoints, k \in 1..MaxJobsPerFile :
          slurm = [NoSlurm EXCEPT
                      !.state = "input",
                      !.wells = [w \in 1..N |-> WellName(w)],
                      !.timepoints = [t \in 1..M |-> TimepointName(t)],
                      !.jobs_per_file = k]

PrepareStitchSlurmJob ==
    /\ slurm.state = "input"
    /\ LET to_process == TimepointLoop(<<>>, slurm.timepoints, slurm.wells) IN
       slurm' = [slurm EXCEPT
                    !.state = "generated",
                    !.array_inputs = ArrayInputs(to_process),
                    !.array = [first |-> 1,
                               last |-> n_jobs(Len(to_process),
                                               slurm.jobs_per_file),
                               running |-> MaxRunningTasks],
                    !.PER_TASK = slurm.jobs_per_file]
    /\ UNCHANGED <<driver, stitch_vars, xml_vars, crop_vars>>

\* lines 631-633: awk prints a column of the rows whose ArrayTaskID is run;
\* the variable is empty when no row has it
AwkSlidename(array_inputs, run) ==
    IF \E i \in 1..Len(array_inputs) : array_inputs[i].ArrayTaskID = run
    THEN array_inputs[CHOOSE i \in 1..Len(array_inputs) :
                         array_inputs[i].ArrayTaskID = run].slidename
    ELSE ""

\* lines 613-617, 629-637: the loop of one array task; processing.py is
\* started once for every run number, with whatever awk printed
DriverLoop(task) ==
    LET START_NUM == (task - 1) * slurm.PER_TASK + 1
        END_NUM   == task * slurm.PER_TASK
    IN  {[task |-> task, run |-> run,
          slidename |-> AwkSlidename(slurm.array_inputs, run)] :
            run \in START_NUM..END_NUM}

\* the scheduler runs an array task of the directive, each task once
RunArrayTask ==
    /\ slurm.state = "generated"
    /\ \E task \in (slurm.array.first..slurm.array.last) \ driver.done :
          driver' = [done |-> driver.done \cup {task},
                     invoked |-> driver.invoked \cup DriverLoop(task)]
    /\ UNCHANGED <<slurm, stitch_vars, xml_vars, crop_vars>>

NextSlurm == PrepareStitchSlurmJob \/ RunArrayTask

SpecSlurm == InitSlurm /\ [][NextSlurm]_vars

\* C9: N wells, M timepoints and jobs_per_file = k >= 1 give exactly N*M job
\* rows, one per timepoint-well pair, and the array directive 1-ceil(N*M/k),
\* with at most 20 tasks running at a time
C9_JobRowsAndArraySize ==
    slurm.state = "generated"
    => LET N == Len(slurm.wells)
           M == Len(slurm.timepoints)
           k == slurm.jobs_per_file
           rows == slurm.array_inputs
       IN /\ Len(rows) = N * M
          /\ \A t \in 1..M, w \in 1..N :
                Cardinality({i \in 1..Len(rows) :
                    rows[i].slidename
                       = slurm.timepoints[t] \o "_" \o slurm.wells[w]}) = 1
          /\ slurm.array.first = 1
          /\ slurm.array.last * k >= N * M
          /\ (slurm.array.last - 1) * k < N * M
          /\ slurm.array.running = 20

C9_Witness ==
    /\ slurm.state = "generated"
    /\ Len(slurm.array_inputs) = 6
    /\ slurm.jobs_per_file = 4
    /\ slurm.array.last = 2

(***************************************************************************)
(* Channel order, labels, temporary directories                            *)
(***************************************************************************)
\* the channel order of the call has been resolved
Ordered ==
    \/ pc \in {"positions", "export", "zarr_write", "cleanup"}
    \/ pc = "returned" /\ result \in {"ok", "array"}

\* C11: a call with channel_order = None assembles the channels in the order
\* that the list of channel-map names in map order gives, and a call with that
\* list assembles them in the order that None gives
C11_ChannelOrderRoundTrip ==
    Ordered
    => /\ args.channel_order = NoList
             => _channels = ChannelOrderIds(ChannelMapValues)
       /\ args.channel_order = ChannelMapValues
             => _channels = Mosaic.channels
       /\ (merged_array.bound /\ args.channel_order \in {NoList, ChannelMapValues})
             => merged_array.planes = Mosaic.channels

C11_Witness ==
    /\ pc = "cleanup"
    /\ args.channel_order = ChannelMapValues
    /\ merged_array.bound
    /\ merged_array.planes = <<0, 1>>

\* channel_order holds a name that is not in the channel map
UnknownChannelInOrder ==
    /\ args.channel_order # NoList
    /\ \E i \in 1..Len(args.channel_order) :
          ListIndex(ChannelMapValues, args.channel_order[i]) = ValueError

\* C12: a call whose channel_order holds an unknown name ends in an error, and
\* at no point of that call has the aligner run or an output been written
C12_UnknownChannelFailsFirst ==
    (pc # "idle" /\ UnknownChannelInOrder)
    => /\ ~aligner_ran
       /\ written = {}
       /\ pc = "returned" => result \in {"ValueError", "SystemExit",
                                         "AttributeError"}

\* line 459: the labels of the omero metadata, one per plane
ZarrLabels == ChannelMapValues

\* channel_order is a permutation of the channel names
OrderIsPermutation ==
    /\ args.channel_order # NoList
    /\ Len(args.channel_order) = Len(ChannelMapValues)
    /\ \A i \in 1..Len(ChannelMapValues) :
          \E j \in 1..Len(args.channel_order) :
             args.channel_order[j] = ChannelMapValues[i]

\* C13: with channel_order a permutation of the channel names, plane i of
\* every output is labelled channel_order[i], the channel whose tiles it
\* holds: flat TIFF name, XML sidecar entry, Zarr label, returned name list
C13_PlanesLabelledByContent ==
    (OrderIsPermutation /\ Ordered)
    => /\ \A f \in written :
             /\ f.kind = "tif"
                   => f.name = TifName(channel_map[f.plane], args.crop)
             /\ f.kind = "xml"
                   => \A i \in 1..Len(f.doc.channels) :
                         f.doc.channels[i].name = args.channel_order[i]
       /\ (merged_array.bound /\ "zarr" \in WrittenKinds)
             => \A i \in 1..Len(merged_array.planes) :
                   ZarrLabels[i] = channel_map[merged_array.planes[i]]
       /\ result = "array"
             => \A i \in 1..Len(retval.array.planes) :
                   /\ retval.channels[i] = args.channel_order[i]
                   /\ retval.channels[i] = channel_map[retval.array.planes[i]]

(***************************************************************************)
(* Properties of the generated array job                                   *)
(***************************************************************************)
AllTasksDone ==
    /\ slurm.state = "generated"
    /\ driver.done = slurm.array.first..slurm.array.last

\* C14: over all array tasks 1..n_jobs the run numbers of the driver loop
\* cover every ArrayTaskID of array_inputs.csv exactly once, and processing.py
\* is started only for run numbers that have a row in the table
C14_DriverCoversRowsOnce ==
    AllTasksDone
    => /\ \A i \in 1..Len(slurm.array_inputs) :
             Cardinality({v \in driver.invoked :
                 v.run = slurm.array_inputs[i].ArrayTaskID}) = 1
       /\ \A v \in driver.invoked :
             \E i \in 1..Len(slurm.array_inputs) :
                slurm.array_inputs[i].ArrayTaskID = v.run

(***************************************************************************)
(* Properties of the temporary directories                                 *)
(***************************************************************************)
\* C15: the cleanup of a call removes only the temporary directory that the
\* same call created, never one that backs an array an earlier 'return_array'
\* call handed to its caller, and it leaves the call's own directory removed
\* and TEMP_DIR_NAME unset
C15_CleanupRemovesOnlyOwnDir ==
    [][pc = "cleanup"
        => /\ (temp_dirs \ temp_dirs') \subseteq {"own"}
           /\ "own" \notin temp_dirs'
           /\ TEMP_DIR_NAME' = "unset"]_vars

====
